---- MODULE Spec2Model ----
(***************************************************************************)
(* A model of moda/process.py: run_process (the generator `output`), the   *)
(* reader threads made by read_stream, the child process they read from,   *)
(* and the terminate action made by terminator.                            *)
(*                                                                         *)
(* A byte is a one-character string, a bytes object a sequence of bytes.   *)
(* An Optional value is None or Some(x).                                   *)
(* A stream is named as the code names it: by the boolean is_stderr        *)
(* (FALSE is the primary stream, TRUE the error stream).                   *)
(***************************************************************************)
EXTENDS Integers, Sequences, FiniteSets, TLC

\* ---------------------------------------------------------------- bounds
\* Most bytes the child process writes, both streams together.
MaxBytes == 2
\* Most non-None inputs the caller sends into the generator.
MaxInputs == 1

\* ------------------------------------------------------------- constants
\* b'\n', the default message delimiter.
NL == "\n"
\* Another byte, b'a'.
A == "a"
Byte == {NL, A}
None == << >>
Some(x) == <<x>>
Stream == BOOLEAN
\* The exit codes a child ends with on its own; SIGTERM ends it with -15.
ExitCodes == {0}
SigTermCode == 0 - 15
\* The input the caller may inject, and the answer of a child that answers it.
Ping == <<A, NL>>
Pong == <<A, NL>>
\* The commands run: a child that writes what it likes when it likes, and a
\* child that writes Pong to its primary stream once it has read Ping.
RunArgs == {"any", "answer"}
\* What the caller sends at a suspension point.
Inputs == {None, Some(Ping)}
\* The configurations run_process is called with.
ChunkSizes == {0 - 1, 1, 2}
DelimiterLists == {<< >>, << <<NL>> >>, << <<NL>>, <<A>> >>}
\* What on_output returns to run_process_combined.
Answers == {None, Some(<< >>), Some(Ping)}

VARIABLES
  cfg,              \* run_process's arguments: run_args, chunk_size, message_delimiters, terminate_on_exit
  proc,             \* the child: "none" (not spawned), "running", "exited"
  exit_status,      \* the child's exit code once it has exited, else None
  signalled,        \* a SIGTERM sent to the running child is pending
  pipe,             \* per stream, the bytes in the OS pipe, not yet read
  written,          \* per stream, every byte the child wrote (history)
  stdin,            \* every byte written to the child's input stream (history)
  supplied,         \* every byte the caller sent into the generator (history)
  n_inputs,         \* the non-None inputs sent so far
  reader,           \* per stream, the reader thread: pc, stop, output
  queue,            \* per stream, the items of the reader's Queue
  unfinished,       \* per stream, the Queue's unfinished_tasks
  stop_queue,       \* per stream, the items of the stop Queue
  pc,               \* where the generator `output` stands
  is_stderr,        \* the generator's locals
  partial_messages,
  return_code,
  empty_countdown,
  stop_countdown,
  output,
  events,           \* every tuple the generator yielded, in order (history)
  parsed,           \* per stream, every message parse_messages returned (history)
  result,           \* the value the generator returned, None before
  registered,       \* terminate is registered with atexit
  raised,           \* an exception escaped terminate
  atexit_run,       \* None while the program runs; once it has shut down,
                    \* Some(whether its exit hooks invoked terminate)
  console,          \* every character printed to sys.stdout (history)
  closed,           \* the child has closed its output streams
  cpc,              \* where run_process_combined stands
  collected_bytes,  \* run_process_combined's locals
  collected_output,
  calls,            \* the arguments of every call of on_output (history)
  returned          \* the tuple run_process_combined returned, None before

vars == <<cfg, proc, exit_status, signalled, pipe, written, stdin, supplied,
          n_inputs, reader, queue, unfinished, stop_queue, pc, is_stderr,
          partial_messages, return_code, empty_countdown, stop_countdown,
          output, events, parsed, result, registered, raised, atexit_run,
          console, closed, cpc, collected_bytes, collected_output, calls,
          returned>>

procVars == <<proc, exit_status, signalled, pipe, written>>
inputVars == <<stdin, supplied, n_inputs>>
readerVars == <<reader, queue, unfinished, stop_queue>>
genVars == <<pc, is_stderr, partial_messages, return_code, empty_countdown,
             stop_countdown, output, events, parsed, result>>
termVars == <<registered, raised, atexit_run>>
combinedVars == <<closed, cpc, collected_bytes, collected_output, calls, returned>>

\* ------------------------------------------------------------ bytes.split
\* The least index at which d occurs in s, 0 when it does not.
Find(s, d) ==
  LET hits == {i \in 1..(Len(s) - Len(d) + 1) : SubSeq(s, i, i + Len(d) - 1) = d}
  IN IF hits = {} THEN 0 ELSE CHOOSE i \in hits : \A j \in hits : i <= j

RECURSIVE Split(_, _)
\* s.split(d) for a non-empty separator d.
Split(s, d) ==
  LET i == Find(s, d)
  IN IF i = 0 THEN <<s>>
     ELSE <<SubSeq(s, 1, i - 1)>> \o Split(SubSeq(s, i + Len(d), Len(s)), d)

IsPrefix(p, w) == Len(p) <= Len(w) /\ SubSeq(w, 1, Len(p)) = p

RECURSIVE Flatten(_)
Flatten(ss) == IF ss = << >> THEN << >> ELSE Head(ss) \o Flatten(Tail(ss))

RECURSIVE Join(_, _)
\* d.join(ms)
Join(ms, d) ==
  IF ms = << >> THEN << >>
  ELSE IF Len(ms) = 1 THEN ms[1]
  ELSE ms[1] \o d \o Join(Tail(ms), d)

\* ------------------------------------------------------------------- echo
\* How str() writes one byte of a bytes object: the line feed is escaped.
Escape(b) == IF b = NL THEN <<"\\", "n">> ELSE <<b>>

\* str(bytes)[2:-1]: the characters between b' and '.
Repr(bytes) == Flatten([k \in 1..Len(bytes) |-> Escape(bytes[k])])

\* '\n'.join(str(b)[2:-1] for b in output.split(b'\n'))
string_output(chunk) ==
  LET lines == Split(chunk, <<NL>>)
  IN Join([k \in 1..Len(lines) |-> Repr(lines[k])], <<NL>>)

\* print(text, end='') when echo is set: what sys.stdout has received.
Echo(text) == IF cfg.echo THEN console \o text ELSE console

\* --------------------------------------------------------- parse_messages
\* One pass of the loop body: the comprehension ranges over
\* message_delimiters, not over the messages split so far.
SplitPass(delimiter) ==
  Flatten([k \in 1..Len(cfg.message_delimiters) |->
             Split(cfg.message_delimiters[k], delimiter)])

RECURSIVE SplitLoop(_, _)
\* for delimiter in message_delimiters: messages = [...]
SplitLoop(messages, i) ==
  IF i > Len(cfg.message_delimiters) THEN messages
  ELSE SplitLoop(SplitPass(cfg.message_delimiters[i]), i + 1)

\* parse_messages(output_bytes) for the stream is_stderr names: the new
\* partial_messages[is_stderr] and the messages returned (encoding is None).
parse_messages(partial, output_bytes) ==
  LET messages == SplitLoop(<<partial \o output_bytes>>, 1)
  IN [partial |-> messages[Len(messages)],
      messages |-> SubSeq(messages, 1, Len(messages) - 1)]

\* A slip: the tuple tagged with the other stream.
StreamingEventMistagged(chunk, messages, stream) ==
  [raw_chunk |-> chunk, messages |-> cfg.message_delimiters, is_stderr |-> ~stream]

\* The tuple yielded at line 218: its second member is message_delimiters.
StreamingEvent(chunk, messages, stream) ==
  [raw_chunk |-> chunk, messages |-> cfg.message_delimiters, is_stderr |-> stream]

\* The tuple yielded at line 228.
DrainingEvent(stream) ==
  [raw_chunk |-> << >>, messages |-> <<partial_messages[stream]>>, is_stderr |-> stream]

\* The tuple yielded at line 170.
FirstEvent == [raw_chunk |-> << >>, messages |-> << >>, is_stderr |-> FALSE]

\* ------------------------------------------------------------------ Init
ReaderInit == [pc |-> "unstarted", stop |-> FALSE, output |-> << >>]

\* on_output is TRUE when a callback is given.
Configs ==
  [run_args : RunArgs, chunk_size : ChunkSizes,
   message_delimiters : DelimiterLists, terminate_on_exit : BOOLEAN,
   echo : BOOLEAN, on_output : BOOLEAN]

InitWith(configs) ==
  /\ cfg \in configs
  /\ proc = "none" /\ exit_status = None /\ signalled = FALSE
  /\ pipe = [s \in Stream |-> << >>]
  /\ written = [s \in Stream |-> << >>]
  /\ stdin = << >> /\ supplied = << >> /\ n_inputs = 0
  /\ reader = [s \in Stream |-> ReaderInit]
  /\ queue = [s \in Stream |-> << >>]
  /\ unfinished = [s \in Stream |-> 0]
  /\ stop_queue = [s \in Stream |-> << >>]
  /\ pc = "none" /\ is_stderr = TRUE
  /\ partial_messages = [s \in Stream |-> << >>]
  /\ return_code = None /\ empty_countdown = 2 /\ stop_countdown = 2
  /\ output = << >> /\ events = << >> /\ result = None
  /\ parsed = [s \in Stream |-> << >>]
  /\ registered = FALSE /\ raised = FALSE /\ atexit_run = None
  /\ console = << >>
  /\ closed = FALSE /\ cpc = "none"
  /\ collected_bytes = << >> /\ collected_output = << >>
  /\ calls = << >> /\ returned = None

\* The calls checked: the default delimiter with a chunk of one byte and of
\* two, and no delimiter at all; terminate_on_exit as it defaults; echo set
\* in the calls with a chunk of two bytes. (run_process takes no callback.)
Calls ==
  {c \in Configs :
     /\ c.terminate_on_exit
     /\ ~c.on_output
     /\ c.echo = (c.chunk_size = 2)
     /\ \/ c.chunk_size \in {1, 2} /\ c.message_delimiters = << <<NL>> >>
        \/ c.chunk_size = 2 /\ c.message_delimiters = << >>}

Init == InitWith(Calls)

\* ------------------------------------------------------ the child process
BytesWritten == Len(written[FALSE]) + Len(written[TRUE])

\* What the command run lets the child write next.
MayWrite(s, b) ==
  cfg.run_args = "answer" =>
    /\ IsPrefix(Ping, stdin)
    /\ ~s
    /\ Len(written[FALSE]) < Len(Pong)
    /\ b = Pong[Len(written[FALSE]) + 1]

\* The child writes one byte to one of its output streams.
ProcWrite(s, b) ==
  /\ proc = "running"
  /\ BytesWritten < MaxBytes
  /\ MayWrite(s, b)
  /\ pipe' = [pipe EXCEPT ![s] = Append(@, b)]
  /\ written' = [written EXCEPT ![s] = Append(@, b)]
  /\ UNCHANGED <<cfg, combinedVars, proc, exit_status, signalled, inputVars, readerVars,
                 genVars, console, termVars>>

\* The child exits: on its own with some exit code, or killed by a SIGTERM
\* sent to it. Its ends of the pipes close.
ProcExit(code) ==
  /\ proc = "running"
  /\ code = SigTermCode => signalled
  /\ proc' = "exited"
  /\ exit_status' = Some(code)
  /\ signalled' = FALSE
  /\ UNCHANGED <<cfg, combinedVars, pipe, written, inputVars, readerVars, genVars, console, termVars>>

\* process.poll()
Poll == IF proc = "exited" THEN exit_status ELSE None

\* ---------------------------------------------------------------- terminator
\* process.terminate(): the signal is sent to a running child; the lookup of
\* a child that is gone may fail.
ProcessTerminate == IF proc = "running" THEN "sent" ELSE "ProcessLookupError"

\* A slip: the try statement catches nothing.
CaughtNothing == {}

\* The exceptions terminate's try statement catches.
Caught == {"ProcessLookupError"}

\* The generator runs on its caller's thread: the caller acts only while the
\* generator is not running.
CallerHasControl == pc \in {"created", "first", "yielded", "drained", "finished"}

\* terminate(), called by the caller who holds it: the signal is pending once
\* sent, and an exception the try statement does not catch escapes.
terminate ==
  /\ CallerHasControl
  /\ signalled' = (signalled \/ ProcessTerminate = "sent")
  /\ raised' = (raised \/ ProcessTerminate \notin (Caught \cup {"sent"}))
  /\ UNCHANGED <<cfg, combinedVars, proc, exit_status, pipe, written, inputVars, readerVars,
                 genVars, console, registered, atexit_run>>

\* terminator(process, terminate_on_exit): whether terminate gets registered.
Registers == cfg.terminate_on_exit

\* ------------------------------------------------------------ run_process
\* run_process(...): Popen, terminator, and the generator object, not started.
RunProcess ==
  /\ pc = "none"
  /\ proc' = "running"
  /\ registered' = Registers
  /\ pc' = "created"
  /\ UNCHANGED <<cfg, combinedVars, exit_status, signalled, pipe, written, inputVars,
                 readerVars, is_stderr, partial_messages, return_code,
                 empty_countdown, stop_countdown, output, events, parsed, console,
                 result, raised, atexit_run>>

\* ------------------------------------------------- read_stream: the reader
\* try: stop = stop_queue.get_nowait() except Empty: pass
ReaderCheckStop(s) ==
  /\ reader[s].pc = "check_stop"
  /\ IF stop_queue[s] # << >>
       THEN /\ reader' = [reader EXCEPT ![s].stop = Head(stop_queue[s]),
                                        ![s].pc = "read"]
            /\ stop_queue' = [stop_queue EXCEPT ![s] = Tail(@)]
       ELSE /\ reader' = [reader EXCEPT ![s].pc = "read"]
            /\ UNCHANGED stop_queue
  /\ UNCHANGED <<cfg, combinedVars, procVars, inputVars, queue, unfinished, genVars, console, termVars>>

\* output = stream.read(1) returns a byte.
ReaderReadByte(s) ==
  /\ reader[s].pc = "read"
  /\ pipe[s] # << >>
  /\ reader' = [reader EXCEPT ![s].output = <<Head(pipe[s])>>, ![s].pc = "get"]
  /\ pipe' = [pipe EXCEPT ![s] = Tail(@)]
  /\ UNCHANGED <<cfg, combinedVars, proc, exit_status, signalled, written, inputVars, queue,
                 unfinished, stop_queue, genVars, console, termVars>>

\* A slip: the reader never emits its terminal chunk.
AfterEmptyReadRetries(stop) == "check_stop"

\* A slip: every empty read puts an empty chunk.
AfterEmptyReadAlwaysPuts(stop) == "put_empty"

\* Where the reader goes when the read returned nothing.
AfterEmptyRead(stop) == IF stop THEN "put_empty" ELSE "check_stop"

\* output = stream.read(1) returns b'': the pipe is empty and the child, who
\* held its other end, has exited. (While the child runs the read blocks.)
ReaderReadEOF(s) ==
  /\ reader[s].pc = "read"
  /\ pipe[s] = << >>
  /\ proc = "exited"
  /\ reader' = [reader EXCEPT ![s].pc = AfterEmptyRead(reader[s].stop)]
  /\ UNCHANGED <<cfg, combinedVars, procVars, inputVars, queue, unfinished, stop_queue,
                 genVars, console, termVars>>

\* queue.put(b''); break
ReaderPutEmpty(s) ==
  /\ reader[s].pc = "put_empty"
  /\ queue' = [queue EXCEPT ![s] = Append(@, << >>)]
  /\ unfinished' = [unfinished EXCEPT ![s] = @ + 1]
  /\ reader' = [reader EXCEPT ![s].pc = "done"]
  /\ UNCHANGED <<cfg, combinedVars, procVars, inputVars, stop_queue, genVars, console, termVars>>

\* A slip: the chunk taken back is dropped.
MergeDropsTaken(queue_bytes, read) == read

\* A slip: the byte read put before the chunk taken back.
MergeReversed(queue_bytes, read) == read \o queue_bytes

\* output = queue_bytes + output
Merge(queue_bytes, read) == queue_bytes \o read

\* A slip: the reader never takes its chunk back.
ReaderFindsEmptyAlways(s) == TRUE

\* Lines 95-100: queue.get_nowait() raises Empty.
ReaderFindsEmpty(s) == queue[s] = << >>

\* try: queue_bytes = queue.get_nowait() ... except Empty: pass
ReaderGet(s) ==
  /\ reader[s].pc = "get"
  /\ IF ~ReaderFindsEmpty(s)
       THEN /\ reader' = [reader EXCEPT ![s].output = Merge(Head(queue[s]), @),
                                        ![s].pc = "task_done"]
            /\ queue' = [queue EXCEPT ![s] = Tail(@)]
       ELSE /\ reader' = [reader EXCEPT ![s].pc = "put"]
            /\ UNCHANGED queue
  /\ UNCHANGED <<cfg, combinedVars, procVars, inputVars, unfinished, stop_queue, genVars, console,
                 termVars>>

\* queue.task_done()
ReaderTaskDone(s) ==
  /\ reader[s].pc = "task_done"
  /\ unfinished' = [unfinished EXCEPT ![s] = @ - 1]
  /\ reader' = [reader EXCEPT ![s].pc = "put"]
  /\ UNCHANGED <<cfg, combinedVars, procVars, inputVars, queue, stop_queue, genVars, console, termVars>>

\* A slip: the reader never waits for its chunk to be taken.
AfterPutNeverJoins(chunk) == "check_stop"

\* if len(output) >= chunk_size: queue.join()
AfterPut(chunk) == IF Len(chunk) >= cfg.chunk_size THEN "join" ELSE "check_stop"

\* queue.put(output)
ReaderPut(s) ==
  /\ reader[s].pc = "put"
  /\ queue' = [queue EXCEPT ![s] = Append(@, reader[s].output)]
  /\ unfinished' = [unfinished EXCEPT ![s] = @ + 1]
  /\ reader' = [reader EXCEPT ![s].pc = AfterPut(reader[s].output),
                              ![s].output = << >>]
  /\ UNCHANGED <<cfg, combinedVars, procVars, inputVars, stop_queue, genVars, console, termVars>>

\* queue.join() returns once every item put has been acknowledged.
ReaderJoin(s) ==
  /\ reader[s].pc = "join"
  /\ unfinished[s] = 0
  /\ reader' = [reader EXCEPT ![s].pc = "check_stop"]
  /\ UNCHANGED <<cfg, combinedVars, procVars, inputVars, queue, unfinished, stop_queue,
                 genVars, console, termVars>>

Reader(s) ==
  \/ ReaderCheckStop(s)
  \/ ReaderReadByte(s)
  \/ ReaderReadEOF(s)
  \/ ReaderPutEmpty(s)
  \/ ReaderGet(s)
  \/ ReaderTaskDone(s)
  \/ ReaderPut(s)
  \/ ReaderJoin(s)

\* ----------------------------------------------- run_process: the generator
\* handle_input(input_bytes): what the child's input stream has received.
handle_input(input_bytes) ==
  IF input_bytes # None THEN stdin \o input_bytes[1] ELSE stdin

\* The caller sends `input` (None, or bytes while the budget lasts).
Sends(input) ==
  /\ input \in Inputs
  /\ input # None => n_inputs < MaxInputs
  /\ n_inputs' = IF input # None THEN n_inputs + 1 ELSE n_inputs
  /\ supplied' = IF input # None THEN supplied \o input[1] ELSE supplied

\* The first next(): lines 149-157 start the two readers, line 170 yields.
Start ==
  /\ pc = "created"
  /\ reader' = [s \in Stream |-> [reader[s] EXCEPT !.pc = "check_stop"]]
  /\ partial_messages' = [s \in Stream |-> << >>]
  /\ is_stderr' = TRUE
  /\ events' = Append(events, FirstEvent)
  /\ pc' = "first"
  /\ UNCHANGED <<cfg, combinedVars, procVars, inputVars, queue, unfinished, stop_queue,
                 return_code, empty_countdown, stop_countdown, output, parsed, console,
                 result, termVars>>

\* Resumed at line 170: handle_input, then lines 173-175.
ResumeFirst(input) ==
  /\ pc = "first"
  /\ Sends(input)
  /\ stdin' = handle_input(input)
  /\ return_code' = None
  /\ empty_countdown' = 2
  /\ stop_countdown' = 2
  /\ pc' = "get"
  /\ UNCHANGED <<cfg, combinedVars, procVars, readerVars, is_stderr, partial_messages,
                 output, events, parsed, console, result, termVars>>

\* Resumed at line 218: handle_input, and round the loop again.
ResumeStreaming(input) ==
  /\ pc = "yielded"
  /\ Sends(input)
  /\ stdin' = handle_input(input)
  /\ pc' = "get"
  /\ UNCHANGED <<cfg, combinedVars, procVars, readerVars, is_stderr, partial_messages,
                 return_code, empty_countdown, stop_countdown, output, events,
                 parsed, console, result, termVars>>

\* A slip: the process is polled again though its exit code is known.
AfterEmptyCountdownPolls == "poll"

\* Lines 195-203: the empty countdown exhausted, poll if the exit code is not
\* known, else break.
AfterEmptyCountdown == IF return_code = None THEN "poll" ELSE "break"

\* Lines 190-219 for the chunk `chunk` of stream s, with the countdowns as
\* they stand after lines 177-188: either round the loop again, poll, break,
\* or parse and yield.
Dispatch(chunk, s) ==
  IF chunk = << >>
  THEN /\ empty_countdown' = empty_countdown - 1
       /\ pc' = IF empty_countdown - 1 # 0 THEN "get" ELSE AfterEmptyCountdown
       /\ UNCHANGED <<partial_messages, events, parsed, console>>
  ELSE /\ empty_countdown' = 2
       /\ LET new == parse_messages(partial_messages[s], chunk)
          IN /\ partial_messages' = [partial_messages EXCEPT ![s] = new.partial]
             /\ parsed' = [parsed EXCEPT ![s] = @ \o new.messages]
             /\ events' = Append(events, StreamingEvent(chunk, new.messages, s))
       /\ console' = Echo(string_output(chunk))
       /\ pc' = "yielded"

\* A slip: an empty channel counts as an empty check though a reader has yet
\* to put its terminal chunk.
IdleWaitNever == FALSE

\* Line 184: the channel is empty, the exit code known, and a terminal chunk
\* still to come: sleep and check the other channel.
IdleWait == return_code # None /\ stop_countdown # 0

\* A slip: the same channel is checked again.
NextChannelSame == is_stderr

\* Line 177: is_stderr = not is_stderr
NextChannel == ~is_stderr

\* Lines 177-188: the other channel is checked, without blocking.
Get ==
  /\ pc = "get"
  /\ is_stderr' = NextChannel
  /\ LET s == NextChannel
     IN IF queue[s] # << >>
        THEN /\ output' = Head(queue[s])
             /\ queue' = [queue EXCEPT ![s] = Tail(@)]
             /\ pc' = "task_done"
             /\ UNCHANGED <<partial_messages, empty_countdown, events, parsed, console>>
        ELSE /\ UNCHANGED queue
             /\ IF IdleWait
                THEN /\ pc' = "get"
                     /\ UNCHANGED <<output, partial_messages, empty_countdown,
                                    events, parsed, console>>
                ELSE /\ output' = << >>
                     /\ Dispatch(<< >>, s)
  /\ UNCHANGED <<cfg, combinedVars, procVars, inputVars, reader, unfinished, stop_queue,
                 return_code, stop_countdown, result, termVars>>

\* Lines 180-182, then 190-219 for the chunk taken.
TaskDone ==
  /\ pc = "task_done"
  /\ unfinished' = [unfinished EXCEPT ![is_stderr] = @ - 1]
  /\ stop_countdown' = IF output = << >> THEN stop_countdown - 1 ELSE stop_countdown
  /\ Dispatch(output, is_stderr)
  /\ UNCHANGED <<cfg, combinedVars, procVars, inputVars, reader, queue, stop_queue,
                 is_stderr, return_code, output, result, termVars>>

\* A slip: the readers are told to stop at every poll.
AfterPollAlwaysStops(code) == "stop_False"

\* Lines 198-201: the readers are told to stop if the poll gave an exit code.
AfterPoll(code) == IF code # None THEN "stop_False" ELSE "get"

\* Lines 196-201: return_code = process.poll()
PollStep ==
  /\ pc = "poll"
  /\ return_code' = Poll
  /\ empty_countdown' = 2
  /\ pc' = AfterPoll(Poll)
  /\ UNCHANGED <<cfg, combinedVars, procVars, inputVars, readerVars, is_stderr,
                 partial_messages, stop_countdown, output, events, parsed, console,
                 result, termVars>>

\* Line 200: reader[1].put(True), for the primary reader and then the error reader.
PutStop(s) ==
  /\ pc = IF s THEN "stop_True" ELSE "stop_False"
  /\ stop_queue' = [stop_queue EXCEPT ![s] = Append(@, TRUE)]
  /\ pc' = IF s THEN "get" ELSE "stop_True"
  /\ UNCHANGED <<cfg, combinedVars, procVars, inputVars, reader, queue, unfinished,
                 is_stderr, partial_messages, return_code, empty_countdown,
                 stop_countdown, output, events, parsed, console, result, termVars>>

\* A slip: a stream is yielded whether or not it has a partial message.
ResiduesAll(from) == from

\* Lines 225-226: the streams among `from` whose partial message is not empty.
Residues(from) == {s \in from : partial_messages[s] # << >>}

\* Lines 224-230 from stream `from` on: the next stream whose partial message
\* is not empty is yielded; when there is none the generator returns.
DrainFrom(from) ==
  LET todo == Residues(from)
  IN IF todo = {}
     THEN /\ pc' = "finished"
          /\ result' = return_code
          /\ is_stderr' = TRUE
          /\ UNCHANGED events
     ELSE LET s == IF FALSE \in todo THEN FALSE ELSE TRUE
          IN /\ pc' = "drained"
             /\ is_stderr' = s
             /\ events' = Append(events, DrainingEvent(s))
             /\ UNCHANGED result

\* A slip: terminate stays registered.
AfterUnregisterKept == registered

\* Lines 221-222: if terminate_on_exit: atexit.unregister(terminate)
AfterUnregister == IF cfg.terminate_on_exit THEN FALSE ELSE registered

\* Lines 221-222, reached by break, then the loop of line 224.
Break ==
  /\ pc = "break"
  /\ registered' = AfterUnregister
  /\ DrainFrom({FALSE, TRUE})
  /\ UNCHANGED <<cfg, combinedVars, procVars, inputVars, readerVars, partial_messages,
                 return_code, empty_countdown, stop_countdown, output, parsed, console,
                 raised, atexit_run>>

\* Resumed at line 228: the value sent is not read; the loop goes on.
ResumeDraining(input) ==
  /\ pc = "drained"
  /\ Sends(input)
  /\ UNCHANGED stdin
  /\ DrainFrom(IF is_stderr THEN {} ELSE {TRUE})
  /\ UNCHANGED <<cfg, combinedVars, procVars, readerVars, partial_messages, return_code,
                 empty_countdown, stop_countdown, output, parsed, console, termVars>>

\* ------------------------------------------------------------------ Next
Next ==
  \/ RunProcess
  \/ \E s \in Stream, b \in Byte : ProcWrite(s, b)
  \/ \E code \in ExitCodes \cup {SigTermCode} : ProcExit(code)
  \/ terminate
  \/ \E s \in Stream : Reader(s)
  \/ Start
  \/ \E input \in Inputs : ResumeFirst(input)
  \/ \E input \in Inputs : ResumeStreaming(input)
  \/ \E input \in Inputs : ResumeDraining(input)
  \/ Get
  \/ TaskDone
  \/ PollStep
  \/ \E s \in Stream : PutStop(s)
  \/ Break

Spec == Init /\ [][Next]_vars

\* The steps of the generator between two suspension points.
Generator == Get \/ TaskDone \/ PollStep \/ (\E s \in Stream : PutStop(s)) \/ Break

\* The caller advancing the sequence: the first next(), and a send at every
\* suspension point.
Caller ==
  \/ Start
  \/ \E input \in Inputs : ResumeFirst(input)
  \/ \E input \in Inputs : ResumeStreaming(input)
  \/ \E input \in Inputs : ResumeDraining(input)

\* Each reader thread and the generator's thread get to run, and the caller
\* resumes the sequence whenever it is suspended. Nothing is assumed of the
\* child process. Two calls are followed: the default delimiter with a chunk
\* of one byte, and no delimiter with a chunk of two.
FairCalls ==
  {c \in Calls :
     /\ c.run_args = "any"
     /\ (c.chunk_size = 1) = (c.message_delimiters # << >>)}

FairSpec ==
  /\ InitWith(FairCalls)
  /\ [][Next]_vars
  /\ \A s \in Stream : WF_vars(Reader(s))
  /\ WF_vars(Generator)
  /\ WF_vars(Caller)

\* The threads run and the caller starts the sequence (the first next()),
\* but nothing more is assumed of the caller: it may never resume the
\* sequence it is handed. The calls are those that set echo.
EchoCalls == {c \in Calls : c.echo /\ c.run_args = "any"}

EchoSpec ==
  /\ InitWith(EchoCalls)
  /\ [][Next]_vars
  /\ \A s \in Stream : WF_vars(Reader(s))
  /\ WF_vars(Generator)
  /\ WF_vars(Start)

\* ----------------------------------------------------------- a failing read
\* output = stream.read(1) raises (an I/O error): nothing in reader catches
\* it, so the exception ends the reader's thread where it stands, with
\* nothing put on its channel.
ReaderReadFails(s) ==
  /\ reader[s].pc = "read"
  /\ reader' = [reader EXCEPT ![s].pc = "failed"]
  /\ UNCHANGED <<cfg, combinedVars, procVars, inputVars, queue, unfinished,
                 stop_queue, genVars, console, termVars>>

FailNext ==
  \/ Next
  \/ \E s \in Stream : ReaderReadFails(s)

\* The scheduling of FairSpec, a read being free to fail.
FailSpec ==
  /\ InitWith(FairCalls)
  /\ [][FailNext]_vars
  /\ \A s \in Stream : WF_vars(Reader(s))
  /\ WF_vars(Generator)
  /\ WF_vars(Caller)

\* ------------------------------------------------------------ program exit
\* The calls followed to the program's exit: terminate_on_exit set and not
\* set, a chunk of two bytes, the default delimiter or none.
ExitCalls ==
  {c \in Configs :
     /\ c.run_args = "any" /\ ~c.on_output /\ ~c.echo
     /\ c.chunk_size = 2
     /\ c.message_delimiters \in {<< <<NL>> >>, << >>}}

\* The program shuts down while its main thread has control: atexit runs the
\* functions registered, so terminate, if it is registered (lines 15-20).
ProgramExit ==
  /\ atexit_run = None
  /\ CallerHasControl
  /\ atexit_run' = Some(registered)
  /\ signalled' = (signalled \/ (registered /\ ProcessTerminate = "sent"))
  /\ raised' = (raised \/ (registered /\ ProcessTerminate \notin (Caught \cup {"sent"})))
  /\ UNCHANGED <<cfg, combinedVars, proc, exit_status, pipe, written,
                 inputVars, readerVars, genVars, console, registered>>

\* While the program runs it takes its steps and the child the child's; once
\* it has shut down (its daemon threads with it) only the child is left.
ExitNext ==
  \/ atexit_run = None /\ Next
  \/ ProgramExit
  \/ atexit_run # None /\ \E code \in ExitCodes \cup {SigTermCode} : ProcExit(code)

ExitSpec == InitWith(ExitCalls) /\ [][ExitNext]_vars

\* ---------------------------------------------------- run_process_combined
\* The calls of run_process_combined: with and without a callback, with and
\* without echo. (The other arguments are run_process's and play no part.)
CombinedCalls ==
  {c \in Configs :
     /\ c.run_args = "any" /\ c.terminate_on_exit
     /\ c.chunk_size = 1 /\ c.message_delimiters = << <<NL>> >>}

\* Line 242: Popen with stderr=subprocess.STDOUT; lines 243-244.
RunProcessCombined ==
  /\ cpc = "none"
  /\ proc' = "running"
  /\ cpc' = "read"
  /\ UNCHANGED <<cfg, exit_status, signalled, pipe, written, inputVars,
                 readerVars, genVars, termVars, console, closed,
                 collected_bytes, collected_output, calls, returned>>

\* The child writes a byte: its error stream being its primary stream, the
\* byte goes to the one pipe, whichever stream it writes to.
ProcWriteCombined(b) == ~closed /\ ProcWrite(FALSE, b)

\* The child closes its output while it runs on: reads return b'' from then.
ProcClose ==
  /\ proc = "running" /\ ~closed
  /\ closed' = TRUE
  /\ UNCHANGED <<cfg, procVars, inputVars, readerVars, genVars, termVars,
                 console, cpc, collected_bytes, collected_output, calls,
                 returned>>

\* Line 256: string_output = '\n' if output == b'\n' else str(output)[2:-1]
string_output_combined(read) == IF read = <<NL>> THEN <<NL>> ELSE Repr(read)

\* A slip: the accumulated output is the last read only.
AccumulateForgets(collected, read) == read

\* Lines 255 and 257: collected += read
Accumulate(collected, read) == collected \o read

\* Line 247 returns a byte; lines 255-260.
CombinedRead ==
  /\ cpc = "read"
  /\ pipe[FALSE] # << >>
  /\ LET read == <<Head(pipe[FALSE])>>
     IN /\ collected_bytes' = Accumulate(collected_bytes, read)
        /\ collected_output' =
             Accumulate(collected_output, string_output_combined(read))
        /\ console' = Echo(string_output_combined(read))
  /\ pipe' = [pipe EXCEPT ![FALSE] = Tail(@)]
  /\ cpc' = IF cfg.on_output THEN "on_output" ELSE "read"
  /\ UNCHANGED <<cfg, proc, exit_status, signalled, written, inputVars,
                 readerVars, genVars, termVars, closed, calls, returned>>

\* A slip: the loop is left at the first empty read.
BreaksOnAnyEmptyRead(code) == TRUE

\* Line 250: if process.poll() is not None: break
BreaksOn(code) == code # None

\* Line 247 returns b'' (the pipe is empty and its other end closed);
\* lines 249-253.
CombinedReadEmpty ==
  /\ cpc = "read"
  /\ pipe[FALSE] = << >>
  /\ proc = "exited" \/ closed
  /\ cpc' = IF BreaksOn(Poll) THEN "return" ELSE "read"
  /\ UNCHANGED <<cfg, procVars, inputVars, readerVars, genVars, termVars,
                 console, closed, collected_bytes, collected_output, calls,
                 returned>>

\* Lines 263-268: on_output is called and returns `answer`, which is written
\* to the child's input stream, and echoed, unless it is None.
CombinedOnOutput(answer) ==
  /\ cpc = "on_output"
  /\ answer # None => n_inputs < MaxInputs
  /\ calls' = Append(calls, [collected_output |-> collected_output,
                             collected_bytes |-> collected_bytes])
  /\ n_inputs' = IF answer # None THEN n_inputs + 1 ELSE n_inputs
  /\ supplied' = IF answer # None THEN supplied \o answer[1] ELSE supplied
  /\ stdin' = IF answer # None THEN stdin \o answer[1] ELSE stdin
  /\ console' = IF answer # None THEN Echo(Repr(answer[1])) ELSE console
  /\ cpc' = "read"
  /\ UNCHANGED <<cfg, procVars, readerVars, genVars, termVars, closed,
                 collected_bytes, collected_output, returned>>

\* Lines 270-271.
CombinedReturn ==
  /\ cpc = "return"
  /\ returned' = Some([return_code |-> Poll,
                       collected_output |-> collected_output,
                       collected_bytes |-> collected_bytes])
  /\ cpc' = "done"
  /\ UNCHANGED <<cfg, procVars, inputVars, readerVars, genVars, termVars,
                 console, closed, collected_bytes, collected_output, calls>>

CombinedNext ==
  \/ RunProcessCombined
  \/ \E b \in Byte : ProcWriteCombined(b)
  \/ ProcClose
  \/ \E code \in ExitCodes : ProcExit(code)
  \/ CombinedRead
  \/ CombinedReadEmpty
  \/ \E answer \in Answers : CombinedOnOutput(answer)
  \/ CombinedReturn

CombinedSpec == InitWith(CombinedCalls) /\ [][CombinedNext]_vars

\* ============================================================== the claims
\* What the history says.
Last(ss) == ss[Len(ss)]
AllButLast(ss) == SubSeq(ss, 1, Len(ss) - 1)

RECURSIVE YieldedUpTo(_, _)
\* The raw chunks of stream s among the first n events, concatenated.
YieldedUpTo(s, n) ==
  IF n = 0 THEN << >>
  ELSE YieldedUpTo(s, n - 1)
         \o (IF events[n].is_stderr = s THEN events[n].raw_chunk ELSE << >>)

Yielded(s) == YieldedUpTo(s, Len(events))

RECURSIVE MessagesUpTo(_, _)
\* The messages yielded for stream s among the first n events, in order.
MessagesUpTo(s, n) ==
  IF n = 0 THEN << >>
  ELSE MessagesUpTo(s, n - 1)
         \o (IF events[n].is_stderr = s THEN events[n].messages ELSE << >>)

YieldedMessages(s) == MessagesUpTo(s, Len(events))

\* The events yielded in Streaming carry a chunk; those of Draining, and the
\* first event, carry none.
StreamingEvents == {i \in 2..Len(events) : events[i].raw_chunk # << >>}
DrainingEvents == {i \in 2..Len(events) : events[i].raw_chunk = << >>}

\* The bytes of stream s on their way: taken by the generator and not yet
\* yielded, on the channel, in the reader's hands, in the pipe.
Held(s) == IF pc = "task_done" /\ is_stderr = s THEN output ELSE << >>
InFlight(s) == Held(s) \o Flatten(queue[s]) \o reader[s].output \o pipe[s]

SingleDelimiter == Len(cfg.message_delimiters) = 1
TheDelimiter == cfg.message_delimiters[1]

\* C1: for each stream the raw chunks yielded, concatenated in yield order,
\* are the bytes the process wrote: at every moment the yielded bytes followed
\* by the bytes on their way are exactly the bytes written (none lost,
\* reordered or duplicated), and once Streaming has ended all are yielded.
C1_ChunksAreTheBytesWritten ==
  \A s \in Stream :
    /\ Yielded(s) \o InFlight(s) = written[s]
    /\ pc \in {"break", "drained", "finished"} => Yielded(s) = written[s]

\* C1 witness: a run that finished after the reader merged a second byte into
\* a chunk not yet collected, the bytes being written right before the exit.
C1_Witness ==
  /\ pc = "finished"
  /\ written[FALSE] = <<A, NL>>
  /\ \E i \in StreamingEvents : events[i].raw_chunk = <<A, NL>>

\* The complete messages that appending event i's chunk to its stream's
\* partial buffer and splitting on the delimiter produces.
MessagesCompletedBy(i) ==
  LET s == events[i].is_stderr
      buffer == Last(Split(YieldedUpTo(s, i - 1), TheDelimiter))
  IN AllButLast(Split(buffer \o events[i].raw_chunk, TheDelimiter))

\* C2: every Streaming event carries the complete messages that its chunk,
\* appended to the stream's partial buffer and split on the delimiter,
\* produces; and a process that writes "a\n" on its primary stream, nothing on
\* its error stream, and exits 0 makes the sequence yield the single message
\* "a", tagged primary, and complete with 0.
C2_StreamingYieldsTheParsedMessages ==
  SingleDelimiter =>
    /\ \A i \in StreamingEvents : events[i].messages = MessagesCompletedBy(i)
    /\ ( /\ pc = "finished"
         /\ written[FALSE] = <<A, NL>> /\ written[TRUE] = << >>
         /\ exit_status = Some(0) )
       => /\ YieldedMessages(FALSE) = << <<A>> >>
          /\ YieldedMessages(TRUE) = << >>
          /\ result = Some(0)

\* C3: with a single delimiter, a non-empty last segment with no delimiter
\* after it is yielded as a message exactly once, tagged with its stream, in
\* Draining.
C3_ResidueYieldedOnceInDraining ==
  (SingleDelimiter /\ pc = "finished") =>
    \A s \in Stream :
      LET residue == Last(Split(written[s], TheDelimiter))
          mine == {i \in DrainingEvents : events[i].is_stderr = s}
      IN residue # << >> =>
           /\ Cardinality(mine) = 1
           /\ \A i \in mine : events[i].messages = <<residue>>

\* C4: with a single delimiter d, the messages parse_messages produced for a
\* stream, joined with d, followed by d when there is a message, and then by
\* the partial buffer kept, are the bytes delivered on that stream.
C4_JoinedMessagesAreTheBytes ==
  SingleDelimiter =>
    \A s \in Stream :
      Join(parsed[s], TheDelimiter)
        \o (IF parsed[s] # << >> THEN TheDelimiter ELSE << >>)
        \o partial_messages[s]
      = Yielded(s)

\* What the sequence yields for a stream whose bytes w come in one chunk: the
\* messages of the Streaming event, then the residue if there is one.
OneChunkMessages(w, s) ==
  IF w = << >> THEN << >>
  ELSE LET new == parse_messages(<< >>, w)
       IN StreamingEvent(w, new.messages, s).messages
            \o (IF new.partial # << >> THEN <<new.partial>> ELSE << >>)

\* C5: with a single delimiter, the messages yielded for a stream, Streaming and then Draining, depend
\* on the bytes written only, not on how they are cut into chunks: they are
\* those of a run that delivers the bytes in one chunk.
C5_MessagesDoNotDependOnChunking ==
  (SingleDelimiter /\ pc = "finished") =>
    \A s \in Stream : YieldedMessages(s) = OneChunkMessages(written[s], s)

\* C6: under fair scheduling and a caller that resumes, every byte written
\* to either stream is eventually yielded, and every event is tagged with the
\* stream its chunk or residual message came from: the chunks tagged with a
\* stream are bytes of that stream, and a residual message is the partial
\* buffer of the stream it is tagged with.
C6_EveryByteYieldedAndTagged ==
  /\ \A s \in Stream : \A k \in 1..MaxBytes :
       (Len(written[s]) >= k) ~> (Len(Yielded(s)) >= k)
  /\ [](\A s \in Stream : IsPrefix(Yielded(s), written[s]))
  /\ [](\A i \in DrainingEvents :
          events[i].messages = <<partial_messages[events[i].is_stderr]>>)

\* C6 witness: bytes were written to both streams and all of them yielded,
\* the primary stream's in Streaming and also as a residual message.
C6_Witness ==
  /\ written[FALSE] # << >> /\ written[TRUE] # << >>
  /\ \A s \in Stream : Yielded(s) = written[s]
  /\ \E i \in DrainingEvents : ~events[i].is_stderr
  /\ \E i \in StreamingEvents : events[i].is_stderr

\* C7: once the process has exited (its ends of both pipes are closed, so
\* both streams reach end-of-file), the sequence eventually completes, with
\* the process's exit code.
C7_FinishesWithTheExitCode ==
  (proc = "exited") ~> (pc = "finished" /\ result = exit_status)

\* C7 witness: the sequence completed with the exit code of a process that
\* had written to both streams.
C7_Witness ==
  /\ pc = "finished" /\ result = exit_status /\ result # None
  /\ written[FALSE] # << >> /\ written[TRUE] # << >>

\* C8: the bytes the caller sends at a suspension point are written to the
\* input stream at once and in order (None writes nothing), so the input
\* stream has received exactly what was sent; and when the process answers
\* Ping with Pong ("a\n") on its primary stream, injecting Ping (which, the
\* child being silent before, can only be at the first suspension point)
\* makes "a" the message yielded next.
C8_InputIsWrittenOnResume ==
  /\ stdin = supplied
  /\ ( /\ cfg.run_args = "answer" /\ SingleDelimiter
       /\ Yielded(FALSE) = Pong )
     => YieldedMessages(FALSE) = << <<A>> >>

\* C9: terminate never fails, and invoking it again, or on a process that
\* has exited, changes nothing: once a signal is pending or the process has
\* exited, the process's state changes only by the process exiting.
C9_TerminateIdempotentNeverFails ==
  /\ [](~raised)
  /\ [][ (signalled \/ proc = "exited")
           => \/ <<proc, exit_status, signalled>>' = <<proc, exit_status, signalled>>
              \/ proc = "running" /\ proc' = "exited" ]_vars

\* C9 witness: the process has exited through an earlier invocation, and the
\* caller, holding control, can invoke terminate again.
C9_Witness ==
  /\ proc = "exited" /\ exit_status = Some(SigTermCode)
  /\ CallerHasControl /\ ENABLED terminate

\* A call with a list of delimiters and a chunk size of at least one byte.
WellFormed(c) == c.message_delimiters # << >> /\ c.chunk_size >= 1

\* C10: a call with an empty list of delimiters or a negative chunk size
\* spawns no process, starts no reader and yields no event.
C10_MalformedCallIsRejected ==
  ~WellFormed(cfg) =>
    /\ proc = "none"
    /\ events = << >>
    /\ \A s \in Stream : reader[s].pc = "unstarted"

\* C11: with echo set, the output the process has written is mirrored to the
\* console whether or not the caller resumes the sequence: every byte written
\* is eventually printed, the reader threads and the generator's steps being
\* scheduled fairly, and the caller being assumed to start the sequence and
\* nothing more.
C11_EchoWithoutResuming ==
  \A k \in 1..MaxBytes : (BytesWritten >= k) ~> (Len(console) >= k)

\* The text run_process_combined collects for the bytes w.
RECURSIVE Text(_)
Text(w) ==
  IF w = << >> THEN << >>
  ELSE (IF Head(w) = NL THEN <<NL>> ELSE Escape(Head(w))) \o Text(Tail(w))

\* The calls of on_output due for the bytes collected: one for each, but the
\* one about to be made.
CallsDue == Len(collected_bytes) - (IF cpc = "on_output" THEN 1 ELSE 0)

\* C12: with a callback, on_output is called exactly once after each
\* non-empty read, with all the bytes read so far, in order (and their text);
\* what it returns, when not None, is written to the input stream before the
\* next read, so that the input stream has received exactly the non-empty
\* answers, in order, and nothing when every answer was None or empty.
C12_CallbackAfterEachRead ==
  /\ Len(calls) = (IF cfg.on_output THEN CallsDue ELSE 0)
  /\ \A i \in 1..Len(calls) :
       /\ calls[i].collected_bytes = SubSeq(written[FALSE], 1, i)
       /\ calls[i].collected_output = Text(SubSeq(written[FALSE], 1, i))
  /\ stdin = supplied
  /\ n_inputs = 0 => stdin = << >>

\* C12 witness: two reads, a call after each, and Ping sent back at one.
C12_Witness ==
  /\ Len(calls) = 2 /\ cpc = "read"
  /\ stdin = Ping
  /\ calls[2].collected_bytes = <<NL, A>>

LeftStreaming == pc \in {"break", "drained", "finished"}

\* C14: the generator leaves Streaming only with the exit code known and both
\* readers' terminal chunks taken (stop_countdown = 0); then both channels are
\* empty, both readers have stopped, and no byte is left for them to deliver.
C14_LeavesStreamingOnlyWhenDrained ==
  LeftStreaming =>
    /\ return_code # None
    /\ stop_countdown = 0
    /\ \A s \in Stream :
         /\ queue[s] = << >>
         /\ reader[s].pc = "done"
         /\ pipe[s] = << >> /\ reader[s].output = << >>

\* C14 witness: Streaming has just ended for a child that wrote to both
\* streams.
C14_Witness ==
  /\ pc = "break"
  /\ written[FALSE] # << >> /\ written[TRUE] # << >>

\* C15: return_code is None until a poll sees that the process has exited;
\* it changes once, at that poll, to the exit code, and never again (no
\* further poll is made); the sequence completes with it.
C15_ExitCodeSetOnce ==
  /\ [](return_code # None => (proc = "exited" /\ return_code = exit_status))
  /\ [][return_code' # return_code
         => (return_code = None /\ pc = "poll" /\ proc = "exited")]_vars
  /\ [][return_code # None
         => (return_code' = return_code /\ pc' # "poll")]_vars
  /\ [](pc = "finished" => (result # None /\ result = return_code))

\* C15 witness: the sequence completed with the exit code of a process ended
\* by terminate, known since a poll made while output was still to come.
C15_Witness ==
  /\ pc = "finished"
  /\ result = Some(SigTermCode)
  /\ BytesWritten = MaxBytes

\* A chunk of chunk_size bytes or more of stream s is on the channel, or taken
\* by the generator and not yet acknowledged.
FullChunkPending(s) ==
  \/ \E i \in 1..Len(queue[s]) : Len(queue[s][i]) >= cfg.chunk_size
  \/ pc = "task_done" /\ is_stderr = s /\ Len(output) >= cfg.chunk_size

\* C16: for chunk_size >= 1, while a chunk that has reached chunk_size bytes
\* is on the channel or not yet acknowledged the reader waits (it reads
\* nothing further); so no chunk on a channel, in a reader's or the
\* generator's hands, or yielded, is longer than chunk_size.
C16_Backpressure ==
  cfg.chunk_size >= 1 =>
    /\ \A s \in Stream :
         /\ FullChunkPending(s) => reader[s].pc = "join"
         /\ \A i \in 1..Len(queue[s]) : Len(queue[s][i]) <= cfg.chunk_size
         /\ Len(reader[s].output) <= cfg.chunk_size
    /\ Len(output) <= cfg.chunk_size
    /\ \A i \in 1..Len(events) : Len(events[i].raw_chunk) <= cfg.chunk_size

\* C16 witness: with a chunk of one byte, a reader waits while another byte
\* is in the pipe for it, the generator having taken the chunk and not yet
\* acknowledged it.
C16_Witness ==
  /\ cfg.chunk_size = 1
  /\ reader[FALSE].pc = "join"
  /\ pipe[FALSE] # << >>
  /\ pc = "task_done" /\ ~is_stderr /\ output # << >>

\* The step puts an empty chunk on the channel of stream s.
PutsEmptyChunk(s) == queue'[s] = Append(queue[s], << >>)

\* C17: a reader puts an empty chunk only after a read that returned nothing
\* with the stop signal observed; the reader then terminates, and puts
\* nothing ever after, so the empty chunk is put once and is the last item.
\* The stop signal once observed stays observed, and a read that returns
\* nothing before it is observed puts nothing.
C17_TerminalChunkOnceAfterStop ==
  /\ [][\A s \in Stream :
         /\ PutsEmptyChunk(s)
              => (reader[s].pc = "put_empty" /\ reader[s].stop /\ reader'[s].pc = "done")
         /\ (reader'[s].pc = "put_empty" /\ reader[s].pc # "put_empty")
              => (reader[s].pc = "read" /\ reader[s].stop /\ pipe[s] = << >>)
         /\ reader[s].pc = "done"
              => (reader'[s] = reader[s] /\ Len(queue'[s]) <= Len(queue[s]))
         /\ reader[s].stop => reader'[s].stop
         /\ (reader[s].pc = "read" /\ ~reader[s].stop /\ pipe[s] = << >>
               /\ reader'[s] # reader[s])
              => (queue'[s] = queue[s] /\ reader'[s].pc = "check_stop")]_vars
  /\ [](\A s \in Stream :
         Cardinality({i \in 1..Len(queue[s]) : queue[s][i] = << >>}) <= 1)

\* C17 witness: the reader of the primary stream has terminated, its
\* terminal chunk on the channel behind a chunk of data not yet taken.
C17_Witness ==
  /\ reader[FALSE].pc = "done"
  /\ queue[FALSE] = << <<A>>, << >> >>

\* The stop signals the reader of stream s has been sent.
StopsSent(s) == Len(stop_queue[s]) + (IF reader[s].stop THEN 1 ELSE 0)

\* The generator has yet to put the stop signal of stream s, the exit code
\* being known since the last poll.
StopToCome(s) == pc = "stop_False" \/ (pc = "stop_True" /\ s)

\* C18: each reader is sent the stop signal exactly once, in the iteration
\* whose poll first gave the exit code; the process is polled only when the
\* empty countdown is exhausted; and while the exit code is not known no
\* reader has been told to stop and no terminal chunk is on a channel.
C18_StopRequestedOnceAtExit ==
  /\ [][\A s \in Stream :
         Len(stop_queue'[s]) > Len(stop_queue[s])
           => /\ StopToCome(s) /\ return_code # None
              /\ StopsSent(s) = 0]_vars
  /\ [][(pc' = "stop_False" /\ pc # "stop_False")
         => (pc = "poll" /\ return_code = None /\ return_code' # None)]_vars
  /\ [][(pc' = "poll" /\ pc # "poll")
         => (return_code = None /\ empty_countdown = 1 /\ empty_countdown' = 0)]_vars
  /\ [](\A s \in Stream :
         /\ StopsSent(s) = (IF return_code # None /\ ~StopToCome(s) THEN 1 ELSE 0)
         /\ return_code = None
              => /\ reader[s].pc # "put_empty"
                 /\ \A i \in 1..Len(queue[s]) : queue[s][i] # << >>)

\* C18 witness: the exit code is known, both stop signals are put and neither
\* is observed yet, data still being on a channel.
C18_Witness ==
  /\ return_code # None
  /\ \A s \in Stream : stop_queue[s] = <<TRUE>>
  /\ queue[TRUE] # << >>

\* Where the generator stands in Streaming, from the first suspension on.
InStreaming ==
  {"first", "get", "task_done", "poll", "stop_False", "stop_True", "yielded"}

\* C19: in Streaming every channel check is on the stream other than the one
\* checked before, whatever it finds, and is_stderr, which names the stream
\* checked last, changes at a channel check only; the first check after the
\* initial suspension is on the primary stream.
C19_ChannelsCheckedInTurn ==
  /\ [][Get => /\ is_stderr' = ~is_stderr
               /\ queue'[is_stderr] = queue[is_stderr]
               /\ pc' = "task_done" => output' = Head(queue[is_stderr'])]_vars
  /\ [][(~Get /\ pc \in InStreaming /\ pc' \in InStreaming)
         => is_stderr' = is_stderr]_vars
  /\ [](pc = "first" => is_stderr)

\* C19 witness: a chunk of the primary stream was yielded, then one of the
\* error stream, and the primary channel has been checked again, idly, the
\* exit code being known.
C19_Witness ==
  /\ Len(events) = 3
  /\ ~events[2].is_stderr /\ events[3].is_stderr
  /\ pc = "get" /\ ~is_stderr
  /\ return_code # None

\* Where the generator is suspended at a yield.
Suspended == {"first", "yielded", "drained"}

\* The tuple the step yields.
YieldedNow == events'[Len(events')]

\* C20: the generator yields at three kinds of points only. At start, before
\* any channel is checked, it yields an empty chunk and no messages; in
\* Streaming it yields when, and only when, the chunk taken is not empty, and
\* the chunk is what it yields; in Draining it yields once for each stream
\* whose partial message is not empty. It does not yield on an empty check,
\* on a terminal chunk or while waiting idly.
C20_YieldsAtThreeKindsOfPoints ==
  /\ [][events' # events =>
         /\ events' = Append(events, YieldedNow)
         /\ pc' \in Suspended
         /\ \/ /\ pc = "created" /\ pc' = "first"
               /\ events = << >>
               /\ YieldedNow = FirstEvent
               /\ \A s \in Stream : reader[s].pc = "unstarted"
            \/ /\ pc = "task_done" /\ pc' = "yielded"
               /\ output # << >>
               /\ YieldedNow.raw_chunk = output
               /\ YieldedNow.is_stderr = is_stderr
            \/ /\ pc \in {"break", "drained"} /\ pc' = "drained"
               /\ YieldedNow.raw_chunk = << >>
               /\ partial_messages[YieldedNow.is_stderr] # << >>
               /\ YieldedNow.messages = <<partial_messages[YieldedNow.is_stderr]>>]_vars
  /\ [][(pc' \in Suspended /\ pc' # pc) => events' # events]_vars
  /\ [][(TaskDone /\ output # << >>) => pc' = "yielded"]_vars
  /\ [](events # << >> => events[1] = FirstEvent)
  /\ [](pc = "yielded" => events[Len(events)].raw_chunk # << >>)
  /\ [](DrainingEvents # {} => LeftStreaming)
  /\ [](\A s \in Stream :
         Cardinality({i \in DrainingEvents : events[i].is_stderr = s}) <= 1)
  /\ [](pc = "finished" =>
         \A s \in Stream :
           partial_messages[s] # << >>
             => \E i \in DrainingEvents : events[i].is_stderr = s)

\* C20 witness: the generator is suspended in Draining for the second time,
\* both streams having a partial message, after yielding their chunks.
C20_Witness ==
  /\ pc = "drained" /\ is_stderr
  /\ Cardinality(DrainingEvents) = 2
  /\ Cardinality(StreamingEvents) = 2

\* The step is one of the generator's own (between two suspension points, or
\* a resumption by its caller).
GeneratorStep == Generator \/ Caller

\* C23, as stated: on each channel only the reader puts and only the
\* generator takes: no step of the reader of stream s removes an item from
\* its channel, and no step of the generator adds one.
C23_ReaderOnlyPutsGeneratorOnlyTakes ==
  [][\A s \in Stream :
       /\ Reader(s) => IsPrefix(queue[s], queue'[s])
       /\ GeneratorStep => Len(queue'[s]) <= Len(queue[s])]_vars

\* C23, amended: only the reader of stream s adds to its channel, and what
\* it adds goes to the end; the generator only takes the first item or
\* leaves the channel alone; the reader takes an item too, the first, but
\* only to merge it in front of the byte it has just read and put it back
\* in its next step on the channel; no other step touches the channel.
C23_ReaderTakesBackOnlyToMerge ==
  [][\A s \in Stream :
       /\ queue'[s] # queue[s] => (Reader(s) \/ Get)
       /\ GeneratorStep =>
            \/ queue'[s] = queue[s]
            \/ queue[s] # << >> /\ queue'[s] = Tail(queue[s])
       /\ Reader(s) =>
            \/ queue'[s] = queue[s]
            \/ /\ reader[s].pc \in {"put", "put_empty"}
               /\ queue'[s] = Append(queue[s], reader[s].output)
            \/ /\ reader[s].pc = "get"
               /\ queue[s] # << >>
               /\ queue'[s] = Tail(queue[s])
               /\ reader'[s].output = Head(queue[s]) \o reader[s].output
               /\ reader'[s].pc = "task_done"
       /\ (Reader(s) /\ reader[s].pc = "task_done") => reader'[s].pc = "put"]_vars

\* C23 witness: the reader has taken its chunk back from the channel and
\* merged the byte just read behind it.
C23_Witness ==
  /\ reader[FALSE].pc = "task_done"
  /\ reader[FALSE].output = <<A, NL>>
  /\ queue[FALSE] = << >>

\* The items of stream s taken from the channel and not yet acknowledged, by
\* the reader and by the generator.
TakenByReader(s) == IF reader[s].pc = "task_done" THEN 1 ELSE 0
TakenByGenerator(s) == IF pc = "task_done" /\ is_stderr = s THEN 1 ELSE 0

\* C24: a channel holds at most one non-empty chunk, then possibly the one
\* terminal empty chunk, so at most two items; its count of unacknowledged
\* items is never below the number of items it holds, nor below zero; and
\* the count goes down only by the acknowledgement of the party, reader or
\* generator, that has just taken an item from that channel.
C24_ChannelHoldsOneChunk ==
  /\ [](\A s \in Stream :
         /\ Len(queue[s]) <= 2
         /\ Cardinality({i \in 1..Len(queue[s]) : queue[s][i] # << >>}) <= 1
         /\ \A i \in 1..Len(queue[s]) : queue[s][i] = << >> => i = Len(queue[s])
         /\ unfinished[s] >= 0
         /\ unfinished[s] >= Len(queue[s])
         /\ unfinished[s] = Len(queue[s]) + TakenByReader(s) + TakenByGenerator(s))
  /\ [][\A s \in Stream :
         /\ unfinished'[s] < unfinished[s]
              => /\ unfinished'[s] = unfinished[s] - 1
                 /\ \/ TakenByReader(s) = 1 /\ reader'[s].pc # "task_done"
                    \/ TakenByGenerator(s) = 1 /\ pc' # "task_done"
         /\ (TakenByReader(s)' = 1 /\ TakenByReader(s) = 0)
              => (queue[s] # << >> /\ queue'[s] = Tail(queue[s]))
         /\ (TakenByGenerator(s)' = 1 /\ TakenByGenerator(s) = 0)
              => (queue[s] # << >> /\ queue'[s] = Tail(queue[s]))]_vars

\* C24 witness: two items of the primary stream are unacknowledged, one on
\* the channel and one in the generator's hands.
C24_Witness ==
  /\ unfinished[FALSE] = 2
  /\ Len(queue[FALSE]) = 1
  /\ TakenByGenerator(FALSE) = 1

\* Where the generator stands from the spawn to the end of Streaming.
BeforeUnregister ==
  {"created", "first", "get", "task_done", "poll", "stop_False", "stop_True",
   "yielded", "break"}

\* C22: with terminate_on_exit set, terminate is registered with atexit from
\* the spawn on and, once the exit code has been seen and Streaming left, no
\* longer, so that a program shutting down after the sequence has finished
\* does not invoke terminate; with terminate_on_exit not set it is never
\* registered, and a shutdown never invokes it.
C22_RegisteredUntilNormalEnd ==
  /\ pc = "none" => ~registered
  /\ pc \in BeforeUnregister => registered = cfg.terminate_on_exit
  /\ pc \in {"drained", "finished"} => ~registered
  /\ ~cfg.terminate_on_exit => (~registered /\ atexit_run # Some(TRUE))
  /\ (atexit_run # None /\ pc \in {"drained", "finished"}) => atexit_run = Some(FALSE)
  /\ (atexit_run # None /\ pc \in BeforeUnregister)
       => atexit_run = Some(cfg.terminate_on_exit)

\* C22 witness: called with terminate_on_exit set, the sequence finished with
\* the exit code, and the program then shut down without invoking terminate.
C22_Witness ==
  /\ cfg.terminate_on_exit
  /\ pc = "finished" /\ result = Some(0)
  /\ atexit_run = Some(FALSE)

\* C21: when a reader's read has failed, the generator does not wait for
\* that reader's terminal chunk: it leaves Streaming, and goes on to finish
\* with the output it has. Stated for the case most in the code's favour,
\* where the process has exited as well.
C21_ReadFailureEndsStreaming ==
  \A s \in Stream :
    (reader[s].pc = "failed" /\ proc = "exited") ~> LeftStreaming

====
